---- MODULE Spec2Model ----
(***************************************************************************)
(* A model of verovio's Staff and LedgerLine (src/src/staff.cpp): the      *)
(* ledger-line dash lists, the four ledger-line buffers of a staff, the    *)
(* cast-off clone of a staff, the resolution of a staff's drawing Y, the   *)
(* children and stem directions of a staff, the time-spanning elements of  *)
(* a staff, and the staves and the verses the CMME importer                *)
(* (src/src/iocmme.cpp) creates.                                           *)
(***************************************************************************)
EXTENDS Integers, Sequences, FiniteSets, TLC

VARIABLES
    m_dashes,   \* LedgerLine::m_dashes of one line-slot: a list of <<left, right>>
    staves,     \* the Staff objects: staves[i] is the object with address i
    measures,   \* the target measures of cast-off: measures[k] lists its children
    m_targetMeasure,    \* ConvertToCastOffMensuralParams::m_targetMeasure
    m_targetStaff,      \* ConvertToCastOffMensuralParams::m_targetStaff
    s_idCounter,        \* the serial number of the next generated identifier
    fault,      \* "none", or how the run was ended
    m_systemAligner,    \* the StaffAlignment slots of the system, in order
    systemY,    \* System::GetDrawingY of the owning system
    docType,    \* Doc::GetType: "Raw" or "Facs"
    staffDefs,  \* the drawing visibility of the system's staffDef, by staff N
    layout,     \* where the vertical layout stands, and what the last run gave
    nodes,      \* the objects below the staves: nodes[i] is the object i
    spanningElements,   \* PrepareStaffCurrentTimeSpanningParams::m_timeSpanningElements
    currentMeasure,     \* the measure that is the ancestor of the staves
    piece,      \* the CMME document given to the importer
    m_score,    \* the sections the importer has added to CmmeInput::m_score
    m_isInSyllable,     \* CmmeInput::m_isInSyllable
    m_currentLayer,     \* the children of CmmeInput::m_currentLayer, in order
    alignParams,        \* AlignVerticallyParams and the staff the pass is at
    call        \* the operation that ran last, with its arguments and result

castOffVars == <<measures, m_targetMeasure, m_targetStaff, s_idCounter, fault>>

alignVars == <<m_systemAligner, systemY, docType, staffDefs, layout>>

spanVars == <<spanningElements, currentMeasure>>

cmmeVars == <<piece, m_score, m_isInSyllable, m_currentLayer>>

treeVars == <<nodes, spanVars, cmmeVars, alignParams>>

vars == <<m_dashes, staves, castOffVars, alignVars, treeVars, call>>

\* ------------------------------------------------------------------------
\* Bounds and input sets
\* ------------------------------------------------------------------------

\* The longest dash list AddDash is called on.
MaxDashes == 3

\* The largest ledger-line extension a caller passes.
MaxExtension == 2

\* The horizontal coordinates callers pass: the edges of the spec's examples
\* ((0,10), (8,20), (5,20), (0,5)), whose differences sit on both sides of
\* 1.5 * extension for every extension in 0..MaxExtension.
Coords == {0, 5, 8, 10, 20}

Extensions == 0..MaxExtension

\* The largest line count a caller of AddLedgerLineAbove/Below passes.
MaxCount == 3

\* The most dashes the four buffers of a staff hold together before a call.
MaxStaffDashes == 3

\* The spans passed to the ledger lines of a staff: (0,5) and (3,5) merge
\* for an extension below 2 and stay apart from 2 on.
StaffSpans == {<<0, 5>>, <<3, 5>>}

\* A null pointer; an object reference is the positive address of the object.
NULL == 0

VRV_UNSET == -2147483647

\* The identifier the encoding gives the staff.
OriginalID == "X"

\* The most clones cast-off makes of the staff.
MaxClones == 3

\* The most target measures the caller of cast-off creates.
MaxSegments == 2

\* The most objects that are created and given to Staff::AddChild.
MaxChildren == 3

\* The most elements the time-spanning pass collects, and the measures it
\* goes through.
MaxSpanning == 2
MaxMeasures == 2

\* The most Voice elements of the voice data and of a music section, and
\* the most music sections of a piece.
MaxVoices == 2
MaxSections == 1

\* The most events of the event list of a Voice.
MaxEvents == 3

\* The most layers a staff is given.
MaxLayers == 3

\* The staves of the system that is laid out, numbered 1..NumStaves.
NumStaves == 2

\* The Y positions the system is given, and the relative offsets a slot is.
SystemYs == {0, 10}

\* The relative Y the layout gives the slot at a place (1-based).
YRelOfSlot(place) == -5 * place

NoCall == [op |-> "none"]

Max(a, b) == IF a > b THEN a ELSE b

\* ------------------------------------------------------------------------
\* LedgerLine
\* ------------------------------------------------------------------------

\* The position std::list::insert is given: before the first dash whose left
\* edge is greater than left, or the end of the list (1-based).
RECURSIVE InsertPos(_, _, _)
InsertPos(dashes, iter, left) ==
    IF iter > Len(dashes) THEN iter
    ELSE IF dashes[iter][1] > left THEN iter
    ELSE InsertPos(dashes, iter + 1, left)

InsertDash(dashes, left, right) ==
    LET iter == InsertPos(dashes, 1, left)
    IN  SubSeq(dashes, 1, iter - 1) \o <<<<left, right>>>>
            \o SubSeq(dashes, iter, Len(dashes))

\* A threshold of two extensions instead of one and a half.
OverlapsByTwoExtensions(previous, iter, extension) ==
    previous[2] > iter[1] + 2 * extension

\* previous->second > iter->first + 1.5 * extension, the int operands promoted
\* to double in the source; doubled here to stay in the integers.
Overlaps(previous, iter, extension) ==
    2 * previous[2] > 2 * iter[1] + 3 * extension

\* A sweep that steps over the dash following a merged one without comparing
\* it with the merged dash.
RECURSIVE MergeDashesSkipping(_, _, _)
MergeDashesSkipping(dashes, iter, extension) ==
    IF iter > Len(dashes) THEN dashes
    ELSE IF Overlaps(dashes[iter - 1], dashes[iter], extension)
         THEN MergeDashesSkipping(
                  SubSeq(dashes, 1, iter - 2)
                      \o <<<<dashes[iter - 1][1],
                             Max(dashes[iter][2], dashes[iter - 1][2])>>>>
                      \o SubSeq(dashes, iter + 1, Len(dashes)),
                  iter + 1, extension)
         ELSE MergeDashesSkipping(dashes, iter + 1, extension)

\* The while loop of AddDash. previous is always the dash just before iter:
\* an erase leaves previous in place and moves iter to the next dash.
RECURSIVE MergeDashes(_, _, _)
MergeDashes(dashes, iter, extension) ==
    IF iter > Len(dashes) THEN dashes
    ELSE IF Overlaps(dashes[iter - 1], dashes[iter], extension)
         THEN MergeDashes(
                  SubSeq(dashes, 1, iter - 2)
                      \o <<<<dashes[iter - 1][1],
                             Max(dashes[iter][2], dashes[iter - 1][2])>>>>
                      \o SubSeq(dashes, iter + 1, Len(dashes)),
                  iter, extension)
         ELSE MergeDashes(dashes, iter + 1, extension)

AddDash(dashes, left, right, extension) ==
    MergeDashes(InsertDash(dashes, left, right), 2, extension)

\* LedgerLine::AddDash on the line-slot, assert(left < right) holding.
LedgerLineAddDash ==
    \E left \in Coords, right \in Coords, extension \in Extensions :
        /\ left < right
        /\ Len(m_dashes) < MaxDashes
        /\ m_dashes' = AddDash(m_dashes, left, right, extension)
        /\ call' = [op |-> "AddDash", left |-> left, right |-> right,
                    extension |-> extension]
        /\ UNCHANGED <<treeVars, staves, castOffVars, alignVars>>

\* LedgerLine::Reset
LedgerLineReset ==
    /\ m_dashes # <<>>
    /\ m_dashes' = <<>>
    /\ call' = [op |-> "Reset"]
    /\ UNCHANGED <<treeVars, staves, castOffVars, alignVars>>

\* No cast-off under way: no target measure, no generated identifier yet.
InitCastOffParams ==
    /\ measures = <<>>
    /\ m_targetMeasure = NULL
    /\ m_targetStaff = NULL
    /\ s_idCounter = 1
    /\ fault = "none"

\* No system laid out: no slot, no staffDef, no layout run yet.
NoLayout ==
    [phase |-> "none", clean |-> FALSE, repeated |-> FALSE,
     snapshot |-> <<>>, stale |-> <<>>, pending |-> {}]

InitNoSystem ==
    /\ m_systemAligner = <<>>
    /\ systemY = 0
    /\ docType = "Raw"
    /\ staffDefs = <<>>
    /\ layout = NoLayout

\* No object below the staves, no spanning element, nothing imported.
NoPiece == [voiceData |-> 0, musicSections |-> <<>>]

\* No vertical-alignment pass is under way.
NoPass == [active |-> FALSE, m_staffIdx |-> 0, m_staffN |-> 0, next |-> 0]

InitNoSpan ==
    /\ spanningElements = <<>>
    /\ currentMeasure = NULL

InitNoPiece ==
    /\ piece = NoPiece
    /\ m_score = <<>>
    /\ m_isInSyllable = FALSE
    /\ m_currentLayer = <<>>

InitNoTree ==
    /\ nodes = <<>>
    /\ InitNoSpan
    /\ InitNoPiece
    /\ alignParams = NoPass

InitLedgerLine ==
    /\ m_dashes = <<>>
    /\ staves = <<>>
    /\ call = NoCall
    /\ InitCastOffParams
    /\ InitNoSystem
    /\ InitNoTree

NextLedgerLine ==
    \/ LedgerLineAddDash
    \/ LedgerLineReset

SpecLedgerLine == InitLedgerLine /\ [][NextLedgerLine]_vars

\* ------------------------------------------------------------------------
\* Staff: construction and the ledger-line buffers
\* ------------------------------------------------------------------------

\* Staff::ClearLedgerLines
ClearLedgerLines(staff) ==
    [staff EXCEPT !.m_ledgerLinesAbove = <<>>,
                  !.m_ledgerLinesBelow = <<>>,
                  !.m_ledgerLinesAboveCue = <<>>,
                  !.m_ledgerLinesBelowCue = <<>>]

\* Staff::Reset on an object with identifier id: no children, the attributes
\* and the facsimile reference unset, the drawing members at their defaults.
StaffReset(id) ==
    ClearLedgerLines(
        [id |-> id,
         children |-> <<>>,
         facs |-> FALSE,
         facsY |-> 0,
         n |-> VRV_UNSET,
         type |-> "",
         visible |-> "unset",
         m_yAbs |-> VRV_UNSET,
         m_drawingStaffSize |-> 100,
         m_drawingLines |-> 5,
         m_drawingNotationType |-> "NOTATIONTYPE_NONE",
         m_staffAlignment |-> NULL,
         m_timeSpanningElements |-> <<>>,
         m_drawingStaffDef |-> NULL,
         m_drawingTuning |-> NULL,
         m_cachedDrawingY |-> VRV_UNSET,
         m_ledgerLinesAbove |-> <<>>,
         m_ledgerLinesBelow |-> <<>>,
         m_ledgerLinesAboveCue |-> <<>>,
         m_ledgerLinesBelowCue |-> <<>>])

\* Staff::Staff(int n)
StaffNew(id, n) == [StaffReset(id) EXCEPT !.n = n]

\* lines.resize(count) when the buffer is shorter than count.
ResizeLines(lines, count) ==
    IF Len(lines) < count
    THEN lines \o [k \in 1..(count - Len(lines)) |-> <<>>]
    ELSE lines

\* The for loop of AddLedgerLines, from i (0-based) to count - 1.
RECURSIVE AddDashToLines(_, _, _, _, _, _)
AddDashToLines(lines, i, count, left, right, extension) ==
    IF i < count
    THEN AddDashToLines(
             [lines EXCEPT ![i + 1] = AddDash(lines[i + 1], left, right, extension)],
             i + 1, count, left, right, extension)
    ELSE lines

\* The loop stopping one line short of count.
AddLedgerLinesOneShort(lines, count, left, right, extension) ==
    AddDashToLines(ResizeLines(lines, count), 0, count - 1, left, right, extension)

\* Staff::AddLedgerLines
AddLedgerLines(lines, count, left, right, extension) ==
    AddDashToLines(ResizeLines(lines, count), 0, count, left, right, extension)

\* Staff::AddLedgerLineAbove
AddLedgerLineAbove(staff, count, left, right, extension, cueSize) ==
    IF cueSize
    THEN [staff EXCEPT !.m_ledgerLinesAboveCue =
              AddLedgerLines(@, count, left, right, extension)]
    ELSE [staff EXCEPT !.m_ledgerLinesAbove =
              AddLedgerLines(@, count, left, right, extension)]

\* Staff::AddLedgerLineBelow
AddLedgerLineBelow(staff, count, left, right, extension, cueSize) ==
    IF cueSize
    THEN [staff EXCEPT !.m_ledgerLinesBelowCue =
              AddLedgerLines(@, count, left, right, extension)]
    ELSE [staff EXCEPT !.m_ledgerLinesBelow =
              AddLedgerLines(@, count, left, right, extension)]

RECURSIVE DashCount(_)
DashCount(lines) ==
    IF lines = <<>> THEN 0 ELSE Len(Head(lines)) + DashCount(Tail(lines))

StaffDashCount(staff) ==
    DashCount(staff.m_ledgerLinesAbove) + DashCount(staff.m_ledgerLinesBelow)
        + DashCount(staff.m_ledgerLinesAboveCue)
        + DashCount(staff.m_ledgerLinesBelowCue)

LedgerCall(op, count, left, right, extension, cueSize) ==
    [op |-> op, count |-> count, left |-> left, right |-> right,
     extension |-> extension, cueSize |-> cueSize]

StaffAddLedgerLineAbove ==
    \E count \in 0..MaxCount, span \in StaffSpans,
       extension \in Extensions, cueSize \in BOOLEAN :
        /\ span[1] < span[2]
        /\ StaffDashCount(staves[1]) + count <= MaxStaffDashes
        /\ staves' = [staves EXCEPT
               ![1] = AddLedgerLineAbove(@, count, span[1], span[2], extension,
                                         cueSize)]
        /\ call' = LedgerCall("AddLedgerLineAbove", count, span[1], span[2],
                              extension, cueSize)
        /\ UNCHANGED <<treeVars, m_dashes, castOffVars, alignVars>>

StaffAddLedgerLineBelow ==
    \E count \in 0..MaxCount, span \in StaffSpans,
       extension \in Extensions, cueSize \in BOOLEAN :
        /\ span[1] < span[2]
        /\ StaffDashCount(staves[1]) + count <= MaxStaffDashes
        /\ staves' = [staves EXCEPT
               ![1] = AddLedgerLineBelow(@, count, span[1], span[2], extension,
                                         cueSize)]
        /\ call' = LedgerCall("AddLedgerLineBelow", count, span[1], span[2],
                              extension, cueSize)
        /\ UNCHANGED <<treeVars, m_dashes, castOffVars, alignVars>>

\* Staff::ResetData
StaffResetData(staff) ==
    ClearLedgerLines([staff EXCEPT !.m_timeSpanningElements = <<>>])

ResetData ==
    /\ StaffDashCount(staves[1]) > 0
    /\ staves' = [staves EXCEPT ![1] = StaffResetData(@)]
    /\ call' = [op |-> "ResetData"]
    /\ UNCHANGED <<treeVars, m_dashes, castOffVars, alignVars>>

InitLedger ==
    /\ m_dashes = <<>>
    /\ staves = <<StaffNew(OriginalID, 1)>>
    /\ call = NoCall
    /\ InitCastOffParams
    /\ InitNoSystem
    /\ InitNoTree

NextLedger ==
    \/ StaffAddLedgerLineAbove
    \/ StaffAddLedgerLineBelow
    \/ ResetData

SpecLedger == InitLedger /\ [][NextLedger]_vars

\* ------------------------------------------------------------------------
\* Cast-off: Staff::ConvertToCastOffMensural
\* ------------------------------------------------------------------------

\* Object::GenerateID: a fresh identifier with the class prefix of the staff.
GenerateID(counter) == "staff-" \o ToString(counter)

\* Object's copy constructor under new Staff(*this): every attribute and
\* member copied, the children cloned, and a new identifier.
ObjectCopy(staff, newID) == [staff EXCEPT !.id = newID]

\* Object::ClearChildren
ClearChildren(staff) == [staff EXCEPT !.children = <<>>]

\* Object::CloneReset: the object is marked modified and its drawing data
\* reset, which for a staff is ResetData and the cached drawing Y.
ObjectCloneReset(staff) ==
    [StaffResetData(staff) EXCEPT !.m_cachedDrawingY = VRV_UNSET]

\* CloneReset leaving the alignment reference of the source in the clone.
StaffCloneResetKeepsAlignment(staff) ==
    [ObjectCloneReset(staff) EXCEPT
        !.m_drawingStaffSize = 100,
        !.m_drawingLines = 5,
        !.m_drawingNotationType = "NOTATIONTYPE_NONE",
        !.m_timeSpanningElements = <<>>,
        !.m_drawingStaffDef = NULL,
        !.m_drawingTuning = NULL]

\* Staff::CloneReset
StaffCloneReset(staff) ==
    [ObjectCloneReset(staff) EXCEPT
        !.m_drawingStaffSize = 100,
        !.m_drawingLines = 5,
        !.m_drawingNotationType = "NOTATIONTYPE_NONE",
        !.m_staffAlignment = NULL,
        !.m_timeSpanningElements = <<>>,
        !.m_drawingStaffDef = NULL,
        !.m_drawingTuning = NULL]

\* Object::SwapID between the objects at addresses a and b.
SwapID(objects, a, b) ==
    [objects EXCEPT ![a].id = objects[b].id, ![b].id = objects[a].id]

\* The handler without SwapID: the clone keeps its generated identifier.
CastOffStavesNoSwap(objects, this, newID) ==
    Append(objects,
           StaffCloneReset(ClearChildren(ObjectCopy(objects[this], newID))))

\* The handler clearing the children of the visited staff, not of the clone.
CastOffStavesClearsSource(objects, this, newID) ==
    LET target == StaffCloneReset(ObjectCopy(objects[this], newID))
        heap   == Append([objects EXCEPT ![this] = ClearChildren(@)], target)
    IN  SwapID(heap, Len(heap), this)

\* The objects after the first four statements of ConvertToCastOffMensural
\* on the staff at address this: the new Staff(*this) is placed at the next
\* free address, its children cleared, CloneReset, and the identifiers of
\* the clone and of the visited staff swapped.
CastOffStaves(objects, this, newID) ==
    LET target == StaffCloneReset(ClearChildren(ObjectCopy(objects[this], newID)))
        heap   == Append(objects, target)
    IN  SwapID(heap, Len(heap), this)

\* The caller of cast-off pre-creates the target measure of the next segment.
CastOffNewSegment ==
    /\ fault = "none"
    /\ Len(measures) < MaxSegments
    /\ measures' = Append(measures, <<>>)
    /\ m_targetMeasure' = Len(measures) + 1
    /\ call' = [op |-> "NewSegment"]
    /\ UNCHANGED <<treeVars, m_dashes, staves, m_targetStaff, s_idCounter, fault, alignVars>>

\* Staff::ConvertToCastOffMensural on the original staff (address 1).
\* assert(params->m_targetMeasure) comes after the swap: with no target
\* measure the run ends there, by the assertion or, when assertions are
\* compiled out, by the call through the null pointer.
ConvertToCastOffMensural ==
    /\ fault = "none"
    /\ Len(staves) <= MaxClones
    /\ staves' = CastOffStaves(staves, 1, GenerateID(s_idCounter))
    /\ s_idCounter' = s_idCounter + 1
    /\ m_targetStaff' = Len(staves) + 1
    /\ IF m_targetMeasure = NULL
       THEN /\ fault' \in {"AssertionFailure", "NullDereference"}
            /\ UNCHANGED measures
       ELSE /\ measures' = [measures EXCEPT
                               ![m_targetMeasure] = Append(@, Len(staves) + 1)]
            /\ UNCHANGED fault
    /\ call' = [op |-> "ConvertToCastOffMensural", this |-> 1]
    /\ UNCHANGED <<treeVars, m_dashes, m_targetMeasure, alignVars>>

\* The staff cast-off visits, as layout left it: with or without children,
\* an absolute Y, an alignment slot, a resolved staff definition, spanning
\* elements, a cached drawing Y and ledger lines.
CastOffSourceStaves ==
    { [StaffNew(OriginalID, n) EXCEPT
          !.children = ch,
          !.m_yAbs = yAbs,
          !.m_staffAlignment = al,
          !.m_drawingStaffDef = al,
          !.m_cachedDrawingY = cy,
          !.m_timeSpanningElements = ts,
          !.m_ledgerLinesAbove = la,
          !.m_ledgerLinesBelowCue = lb] :
        n \in {1, 2},
        ch \in {<<>>, <<"layer-1", "layer-2">>},
        yAbs \in {VRV_UNSET, 40},
        al \in {NULL, 1},
        cy \in {VRV_UNSET, 25},
        ts \in {<<>>, <<[class |-> "VERSE", n |-> 1]>>},
        la \in {<<>>, << << <<0, 5>> >>, << <<0, 5>> >> >>},
        lb \in {<<>>, << << <<3, 5>> >> >>} }

InitCastOff ==
    /\ m_dashes = <<>>
    /\ staves \in {<<s>> : s \in CastOffSourceStaves}
    /\ call = NoCall
    /\ InitCastOffParams
    /\ InitNoSystem
    /\ InitNoTree

NextCastOff ==
    \/ CastOffNewSegment
    \/ ConvertToCastOffMensural

SpecCastOff == InitCastOff /\ [][NextCastOff]_vars

\* ------------------------------------------------------------------------
\* Vertical alignment and the drawing Y of a staff
\* ------------------------------------------------------------------------

\* GetDrawingY memoizing the 0 it returns for a staff without a slot.
StaffGetDrawingYMemoizesSentinel(staff, type, sysY, aligner) ==
    IF staff.facs /\ type = "Facs"
    THEN [result |-> staff.facsY, staff |-> staff]
    ELSE IF staff.m_yAbs # VRV_UNSET
    THEN [result |-> staff.m_yAbs, staff |-> staff]
    ELSE IF staff.m_cachedDrawingY # VRV_UNSET
    THEN [result |-> staff.m_cachedDrawingY, staff |-> staff]
    ELSE LET y == IF staff.m_staffAlignment = NULL THEN 0
                  ELSE sysY + aligner[staff.m_staffAlignment].yRel
         IN  [result |-> y, staff |-> [staff EXCEPT !.m_cachedDrawingY = y]]

\* GetDrawingY testing the absolute Y before the facsimile.
StaffGetDrawingYAbsoluteFirst(staff, type, sysY, aligner) ==
    IF staff.m_yAbs # VRV_UNSET
    THEN [result |-> staff.m_yAbs, staff |-> staff]
    ELSE IF staff.facs /\ type = "Facs"
    THEN [result |-> staff.facsY, staff |-> staff]
    ELSE IF staff.m_staffAlignment = NULL
    THEN [result |-> 0, staff |-> staff]
    ELSE IF staff.m_cachedDrawingY # VRV_UNSET
    THEN [result |-> staff.m_cachedDrawingY, staff |-> staff]
    ELSE LET y == sysY + aligner[staff.m_staffAlignment].yRel
         IN  [result |-> y, staff |-> [staff EXCEPT !.m_cachedDrawingY = y]]

\* Staff::GetDrawingY: the value returned and the staff after the call
\* (m_cachedDrawingY is mutable). type is the type of the owning document,
\* sysY the drawing Y of the owning system; staff.facsY stands for
\* FacsimileInterface::GetDrawingY, the Y of the attached zone.
StaffGetDrawingY(staff, type, sysY, aligner) ==
    IF staff.facs /\ type = "Facs"
    THEN [result |-> staff.facsY, staff |-> staff]
    ELSE IF staff.m_yAbs # VRV_UNSET
    THEN [result |-> staff.m_yAbs, staff |-> staff]
    ELSE IF staff.m_staffAlignment = NULL
    THEN [result |-> 0, staff |-> staff]
    ELSE IF staff.m_cachedDrawingY # VRV_UNSET
    THEN [result |-> staff.m_cachedDrawingY, staff |-> staff]
    ELSE LET y == sysY + aligner[staff.m_staffAlignment].yRel
         IN  [result |-> y, staff |-> [staff EXCEPT !.m_cachedDrawingY = y]]

\* Object::ResetCachedDrawingY
ResetCachedDrawingY(staff) == [staff EXCEPT !.m_cachedDrawingY = VRV_UNSET]

\* Staff::ResetVerticalAlignment
StaffResetVerticalAlignment(staff) ==
    ClearLedgerLines([staff EXCEPT !.m_staffAlignment = NULL])

\* Staff::DrawingIsVisible: the staffDef of the system's drawing scoreDef
\* with the N of the staff is not hidden.
DrawingIsVisible(staff, defs) == defs[staff.n] # "OPTIMIZATION_HIDDEN"

\* A StaffAlignment as SystemAligner creates it for a staff.
NewStaffAlignment(staffAddr) ==
    [yRel |-> 0, verseNs |-> <<>>, staff |-> staffAddr]

\* SystemAligner::GetStaffAlignment: the slot at position idx (0-based) when
\* there is one, and otherwise a new slot appended. The reference returned is
\* the 1-based place of the slot.
GetStaffAlignment(aligner, idx, staffAddr) ==
    IF idx < Len(aligner)
    THEN [aligner |-> aligner, alignment |-> idx + 1]
    ELSE [aligner |-> Append(aligner, NewStaffAlignment(staffAddr)),
          alignment |-> Len(aligner) + 1]

\* StaffAlignment::AddVerseN: the verse number is inserted in the ordered
\* list of the verse numbers of the slot when it is not in it.
AddVerseN(slot, verseN) ==
    IF \E k \in 1..Len(slot.verseNs) : slot.verseNs[k] = verseN
    THEN slot
    ELSE [slot EXCEPT !.verseNs =
             SelectSeq(@, LAMBDA v : v < verseN) \o <<verseN>>
                 \o SelectSeq(@, LAMBDA v : v > verseN)]

\* StaffAlignment::GetVersePosition, as AlignVertically tests it: whether
\* the verse number is registered with the slot.
HasVersePosition(slot, verseN) ==
    \E k \in 1..Len(slot.verseNs) : slot.verseNs[k] = verseN

\* std::find_if over m_timeSpanningElements with ObjectComparison(classId):
\* the place of the first element of the class, 0 when there is none.
RECURSIVE FindClass(_, _, _)
FindClass(elements, iter, classId) ==
    IF iter > Len(elements) THEN 0
    ELSE IF elements[iter].class = classId THEN iter
    ELSE FindClass(elements, iter + 1, classId)

\* AlignVertically advancing m_staffIdx for a hidden staff as well.
StaffAlignVerticallyCountsHidden(ctx, this) ==
    LET staff == ctx.staves[this]
    IN  IF ~DrawingIsVisible(staff, ctx.defs)
        THEN [ctx EXCEPT !.m_staffIdx = @ + 1, !.code = "FUNCTOR_SIBLINGS"]
        ELSE
          LET got == GetStaffAlignment(ctx.aligner, ctx.m_staffIdx, this)
          IN  [ctx EXCEPT
                  !.m_staffN = staff.n,
                  !.staves[this].m_staffAlignment = got.alignment,
                  !.aligner = got.aligner,
                  !.m_staffIdx = @ + 1,
                  !.code = "FUNCTOR_CONTINUE"]

\* AlignVertically registering the verse of a spanning verse only.
StaffAlignVerticallyVerseOnly(ctx, this) ==
    LET staff == ctx.staves[this]
    IN  IF ~DrawingIsVisible(staff, ctx.defs)
        THEN [ctx EXCEPT !.code = "FUNCTOR_SIBLINGS"]
        ELSE
          LET got      == GetStaffAlignment(ctx.aligner, ctx.m_staffIdx, this)
              a        == got.alignment
              elements == staff.m_timeSpanningElements
              versePos == FindClass(elements, 1, "VERSE")
              withVerse ==
                  IF versePos # 0
                  THEN [got.aligner EXCEPT ![a] = AddVerseN(@, elements[versePos].n)]
                  ELSE got.aligner
          IN  [ctx EXCEPT
                  !.m_staffN = staff.n,
                  !.staves[this].m_staffAlignment = a,
                  !.aligner = withVerse,
                  !.m_staffIdx = @ + 1,
                  !.code = "FUNCTOR_CONTINUE"]

\* Staff::AlignVertically on the staff at address this. ctx holds the
\* staves, the aligner and the pass's m_staffIdx and m_staffN; code is the
\* functor code returned.
StaffAlignVertically(ctx, this) ==
    LET staff == ctx.staves[this]
    IN  IF ~DrawingIsVisible(staff, ctx.defs)
        THEN [ctx EXCEPT !.code = "FUNCTOR_SIBLINGS"]
        ELSE
          LET got      == GetStaffAlignment(ctx.aligner, ctx.m_staffIdx, this)
              a        == got.alignment
              elements == staff.m_timeSpanningElements
              versePos == FindClass(elements, 1, "VERSE")
              withVerse ==
                  IF versePos # 0
                  THEN [got.aligner EXCEPT ![a] = AddVerseN(@, elements[versePos].n)]
                  ELSE got.aligner
              sylPos   == FindClass(elements, 1, "SYL")
              withSyl  ==
                  IF sylPos # 0 /\ elements[sylPos].verse # NULL
                     /\ ~HasVersePosition(withVerse[a], elements[sylPos].verse)
                  THEN [withVerse EXCEPT ![a] = AddVerseN(@, elements[sylPos].verse)]
                  ELSE withVerse
          IN  [ctx EXCEPT
                  !.m_staffN = staff.n,
                  !.staves[this].m_staffAlignment = a,
                  !.aligner = withSyl,
                  !.m_staffIdx = @ + 1,
                  !.code = "FUNCTOR_CONTINUE"]

\* The traversal of the staves of the system in document order.
RECURSIVE AlignStaves(_, _)
AlignStaves(ctx, this) ==
    IF this > Len(ctx.staves) THEN ctx
    ELSE AlignStaves(StaffAlignVertically(ctx, this), this + 1)

\* What a layout run leaves: per staff, its slot and its drawing Y.
LayoutSnapshot(objects, type, sysY, aligner) ==
    [i \in 1..Len(objects) |->
        [slot |-> objects[i].m_staffAlignment,
         y    |-> StaffGetDrawingY(objects[i], type, sysY, aligner).result]]

\* The reset-vertical-alignment traversal of the system: the slots of the
\* system are discarded and the cached drawing Y of its staves reset, and
\* Staff::ResetVerticalAlignment runs on every staff.
ResetVerticalAlignment ==
    /\ staves' = [i \in 1..Len(staves) |->
                    StaffResetVerticalAlignment(ResetCachedDrawingY(staves[i]))]
    /\ m_systemAligner' = <<>>
    /\ layout' = [layout EXCEPT
                     !.phase = "reset",
                     !.repeated = FALSE,
                     !.stale = [i \in 1..Len(staves) |-> staves[i].m_cachedDrawingY],
                     !.pending = {}]
    /\ call' = [op |-> "ResetVerticalAlignment"]
    /\ UNCHANGED <<treeVars, m_dashes, castOffVars, systemY, docType, staffDefs>>

\* The vertical-alignment traversal of the system: Staff::AlignVertically on
\* every staff in order, m_staffIdx starting at 0.
AlignVertically ==
    LET ctx == AlignStaves([staves |-> staves, aligner |-> m_systemAligner,
                            defs |-> staffDefs, m_staffIdx |-> 0,
                            m_staffN |-> 0, code |-> "FUNCTOR_CONTINUE"], 1)
    IN  /\ staves' = ctx.staves
        /\ m_systemAligner' = ctx.aligner
        /\ layout' =
             IF layout.phase = "reset"
             THEN [layout EXCEPT
                      !.phase = "aligned",
                      !.clean = TRUE,
                      !.repeated = layout.clean,
                      !.snapshot = LayoutSnapshot(ctx.staves, docType, systemY,
                                                  ctx.aligner),
                      !.pending = 1..Len(staves)]
             ELSE [NoLayout EXCEPT !.phase = "aligned"]
        /\ call' = [op |-> "AlignVertically", m_staffIdx |-> ctx.m_staffIdx]
        /\ UNCHANGED <<treeVars, m_dashes, castOffVars, systemY, docType, staffDefs>>

\* Staff::GetDrawingY on one staff of the system.
GetDrawingY ==
    \E this \in 1..Len(staves) :
        LET got == StaffGetDrawingY(staves[this], docType, systemY,
                                    m_systemAligner)
        IN  /\ staves' = [staves EXCEPT ![this] = got.staff]
            /\ layout' = [layout EXCEPT
                             !.pending = @ \ {this},
                             !.stale = IF this \in layout.pending
                                       THEN [@ EXCEPT ![this] = VRV_UNSET]
                                       ELSE @]
            /\ call' = [op |-> "GetDrawingY", this |-> this,
                        result |-> got.result,
                        first |-> this \in layout.pending,
                        stale |-> IF this \in DOMAIN layout.stale
                                  THEN layout.stale[this] ELSE VRV_UNSET]
            /\ UNCHANGED <<treeVars, m_dashes, castOffVars, m_systemAligner, systemY,
                           docType, staffDefs>>

\* The system is moved: System::GetDrawingY changes.
SetSystemY ==
    \E y \in SystemYs \ {systemY} :
        /\ systemY' = y
        /\ layout' = [layout EXCEPT !.clean = FALSE, !.repeated = FALSE,
                                    !.snapshot = <<>>]
        /\ call' = [op |-> "SetSystemY"]
        /\ UNCHANGED <<treeVars, m_dashes, staves, castOffVars, m_systemAligner,
                       docType, staffDefs>>

\* A later layout step places the slots: StaffAlignment::SetYRel on every
\* slot of the system.
SetAlignmentYPos ==
    /\ \E a \in 1..Len(m_systemAligner) :
           m_systemAligner[a].yRel # YRelOfSlot(a)
    /\ m_systemAligner' = [a \in 1..Len(m_systemAligner) |->
                             [m_systemAligner[a] EXCEPT !.yRel = YRelOfSlot(a)]]
    /\ layout' = [layout EXCEPT !.clean = FALSE, !.repeated = FALSE,
                                !.snapshot = <<>>]
    /\ call' = [op |-> "SetAlignmentYPos"]
    /\ UNCHANGED <<treeVars, m_dashes, staves, castOffVars, systemY, docType, staffDefs>>

\* The staves of a system as the importer leaves them: numbered in order,
\* with or without a facsimile zone and an absolute Y.
SystemStaff(n, facs, yAbs) ==
    [StaffNew(GenerateID(n), n) EXCEPT
        !.facs = facs,
        !.facsY = IF facs THEN 70 ELSE 0,
        !.m_yAbs = yAbs]

InitAlign ==
    /\ m_dashes = <<>>
    /\ \E facs \in [1..NumStaves -> BOOLEAN],
          yAbs \in [1..NumStaves -> {VRV_UNSET, 40}] :
          staves = [n \in 1..NumStaves |-> SystemStaff(n, facs[n], yAbs[n])]
    /\ call = NoCall
    /\ InitCastOffParams
    /\ m_systemAligner = <<>>
    /\ systemY = 0
    /\ docType \in {"Raw", "Facs"}
    /\ staffDefs \in [1..NumStaves -> {"OPTIMIZATION_NONE", "OPTIMIZATION_HIDDEN"}]
    /\ layout = NoLayout
    /\ InitNoTree

NextAlign ==
    \/ ResetVerticalAlignment
    \/ AlignVertically
    \/ GetDrawingY
    \/ SetSystemY
    \/ SetAlignmentYPos

SpecAlign == InitAlign /\ [][NextAlign]_vars

\* ------------------------------------------------------------------------
\* The vertical-alignment pass, staff by staff
\* ------------------------------------------------------------------------

\* A verse with the number n, and a syllable below the verse with the number
\* verse (NULL: a syllable without a verse as ancestor).
SpanningVerse(n) == [class |-> "VERSE", n |-> n, verse |-> NULL]

SpanningSyl(verse) == [class |-> "SYL", n |-> VRV_UNSET, verse |-> verse]

\* The lists of time-spanning elements a staff is given before the pass
\* visits it.
SpanningLists ==
    {<<SpanningSyl(1)>>,
     <<SpanningSyl(NULL)>>,
     <<SpanningVerse(2), SpanningSyl(1)>>}

\* The staves of a measure of the system, numbered in order.
MeasureStaves == [n \in 1..NumStaves |-> StaffNew(GenerateID(n), n)]

\* The pass starts on the staves of a measure: m_staffIdx is 0.
BeginAlignVertically ==
    /\ ~alignParams.active
    /\ alignParams' = [active |-> TRUE, m_staffIdx |-> 0, m_staffN |-> 0,
                       next |-> 1]
    /\ call' = [op |-> "BeginAlignVertically"]
    /\ UNCHANGED <<m_dashes, staves, castOffVars, alignVars, nodes, spanVars,
                   cmmeVars>>

\* Staff::AlignVertically on the next staff of the measure.
VisitAlignVertically ==
    LET this == alignParams.next
        ctx  == StaffAlignVertically(
                    [staves |-> staves, aligner |-> m_systemAligner,
                     defs |-> staffDefs,
                     m_staffIdx |-> alignParams.m_staffIdx,
                     m_staffN |-> alignParams.m_staffN,
                     code |-> "FUNCTOR_CONTINUE"], this)
    IN  /\ alignParams.active
        /\ staves' = ctx.staves
        /\ m_systemAligner' = ctx.aligner
        /\ alignParams' = [active |-> this < Len(staves),
                           m_staffIdx |-> ctx.m_staffIdx,
                           m_staffN |-> ctx.m_staffN,
                           next |-> this + 1]
        /\ call' = [op |-> "StaffAlignVertically", this |-> this,
                    code |-> ctx.code]
        /\ UNCHANGED <<m_dashes, castOffVars, systemY, docType, staffDefs,
                       layout, nodes, spanVars, cmmeVars>>

\* The pass goes on to the next measure of the system: other staves, with
\* other time-spanning elements, and the slots of the system as they are.
NextMeasure ==
    /\ ~alignParams.active
    /\ staves # MeasureStaves
    /\ staves' = MeasureStaves
    /\ alignParams' = NoPass
    /\ call' = [op |-> "NextMeasure"]
    /\ UNCHANGED <<m_dashes, castOffVars, alignVars, nodes, spanVars, cmmeVars>>

\* The preparation of the data gives a staff of the measure its
\* time-spanning elements, before the measure is aligned.
SetTimeSpanningElements ==
    /\ ~alignParams.active
    /\ \E n \in 1..Len(staves), list \in SpanningLists :
          /\ staves[n].m_timeSpanningElements = <<>>
          /\ staves[n].m_staffAlignment = NULL
          /\ staves' = [staves EXCEPT ![n].m_timeSpanningElements = list]
    /\ alignParams' = NoPass
    /\ call' = [op |-> "SetTimeSpanningElements"]
    /\ UNCHANGED <<m_dashes, castOffVars, alignVars, nodes, spanVars, cmmeVars>>

\* The optimisation of the score definition hides a staffDef of the system.
SetDrawingVisibility ==
    /\ ~alignParams.active
    /\ \E n \in 1..NumStaves :
          /\ staffDefs[n] # "OPTIMIZATION_HIDDEN"
          /\ staffDefs' = [staffDefs EXCEPT ![n] = "OPTIMIZATION_HIDDEN"]
    /\ alignParams' = NoPass
    /\ call' = [op |-> "SetDrawingVisibility"]
    /\ UNCHANGED <<m_dashes, staves, castOffVars, m_systemAligner, systemY,
                   docType, layout, nodes, spanVars, cmmeVars>>

InitAlignPass ==
    /\ m_dashes = <<>>
    /\ staves = MeasureStaves
    /\ call = NoCall
    /\ InitCastOffParams
    /\ m_systemAligner = <<>>
    /\ systemY = 0
    /\ docType = "Raw"
    /\ staffDefs \in [1..NumStaves -> {"OPTIMIZATION_NONE", "OPTIMIZATION_HIDDEN"}]
    /\ layout = NoLayout
    /\ InitNoTree

NextAlignPass ==
    \/ BeginAlignVertically
    \/ VisitAlignVertically
    \/ NextMeasure
    \/ SetTimeSpanningElements
    \/ SetDrawingVisibility

SpecAlignPass == InitAlignPass /\ [][NextAlignPass]_vars

\* ------------------------------------------------------------------------
\* The time-spanning elements of a staff
\* ------------------------------------------------------------------------

\* TimeSpanningInterface::IsOnStaff: the element is on the staff with the N.
IsOnStaff(element, n) == n \in element.staffNs

\* The loop of PrepareStaffCurrentTimeSpanning without the test of the start
\* measure.
RECURSIVE PushSpanningOnStaff(_, _, _, _)
PushSpanningOnStaff(staff, elements, iter, measure) ==
    IF iter > Len(elements) THEN staff
    ELSE PushSpanningOnStaff(
             IF IsOnStaff(elements[iter], staff.n)
             THEN [staff EXCEPT !.m_timeSpanningElements = Append(@, iter)]
             ELSE staff,
             elements, iter + 1, measure)

\* The loop of Staff::PrepareStaffCurrentTimeSpanning over
\* params->m_timeSpanningElements, from the position iter on. measure is the
\* measure that is the ancestor of the staff; the staff holds the elements
\* by reference, which is their place in the collection.
RECURSIVE PushSpanning(_, _, _, _)
PushSpanning(staff, elements, iter, measure) ==
    IF iter > Len(elements) THEN staff
    ELSE PushSpanning(
             IF elements[iter].startMeasure # measure
                /\ IsOnStaff(elements[iter], staff.n)
             THEN [staff EXCEPT !.m_timeSpanningElements = Append(@, iter)]
             ELSE staff,
             elements, iter + 1, measure)

\* Staff::PrepareStaffCurrentTimeSpanning on a staff of the current measure.
PrepareStaffCurrentTimeSpanning ==
    \E this \in 1..Len(staves) :
        /\ Len(staves[this].m_timeSpanningElements) < MaxSpanning
        /\ staves' = [staves EXCEPT ![this] =
                         PushSpanning(@, spanningElements, 1, currentMeasure)]
        /\ call' = [op |-> "PrepareStaffCurrentTimeSpanning", this |-> this,
                    code |-> "FUNCTOR_CONTINUE"]
        /\ UNCHANGED <<m_dashes, castOffVars, alignVars, nodes, spanVars,
                       cmmeVars, alignParams>>

\* The pass meets an element that starts in the current measure and spans
\* further, on some staves, and adds it to its collection.
CollectTimeSpanningElement ==
    /\ Len(spanningElements) < MaxSpanning
    /\ \E staffNs \in (SUBSET (1..NumStaves)) \ {{}} :
          spanningElements' =
              Append(spanningElements,
                     [startMeasure |-> currentMeasure, staffNs |-> staffNs])
    /\ call' = [op |-> "CollectTimeSpanningElement"]
    /\ UNCHANGED <<m_dashes, staves, castOffVars, alignVars, nodes,
                   currentMeasure, cmmeVars, alignParams>>

\* The pass goes on to the next measure and its staves.
EnterNextMeasure ==
    /\ currentMeasure < MaxMeasures
    /\ currentMeasure' = currentMeasure + 1
    /\ staves' = MeasureStaves
    /\ call' = [op |-> "EnterNextMeasure"]
    /\ UNCHANGED <<m_dashes, castOffVars, alignVars, nodes, spanningElements,
                   cmmeVars, alignParams>>

InitTimeSpanning ==
    /\ m_dashes = <<>>
    /\ staves = MeasureStaves
    /\ call = NoCall
    /\ InitCastOffParams
    /\ InitNoSystem
    /\ nodes = <<>>
    /\ spanningElements = <<>>
    /\ currentMeasure = 1
    /\ InitNoPiece
    /\ alignParams = NoPass

NextTimeSpanning ==
    \/ PrepareStaffCurrentTimeSpanning
    \/ CollectTimeSpanningElement
    \/ EnterNextMeasure

SpecTimeSpanning == InitTimeSpanning /\ [][NextTimeSpanning]_vars

\* ------------------------------------------------------------------------
\* The layers of a staff and their stem directions
\* ------------------------------------------------------------------------

\* An object below a staff as its constructor leaves it: no N, no content,
\* no cross-staff content, the drawing stem direction unset. addr is the
\* address of the object, which is what a pointer comparison compares.
NewNode(class, addr) ==
    [class |-> class,
     addr |-> addr,
     n |-> VRV_UNSET,
     empty |-> TRUE,
     crossStaffFromBelow |-> FALSE,
     crossStaffFromAbove |-> FALSE,
     m_drawingStemDir |-> "STEMDIRECTION_NONE"]

\* Object::FindAllDescendantsByType(classId, false): the descendants of the
\* class, in document order.
FindAllDescendantsByType(objs, staff, classId) ==
    SelectSeq(staff.children, LAMBDA c : objs[c].class = classId)

\* Object::FindAllDescendantsByComparison with IsEmptyComparison(classId):
\* the descendants of the class without content, in document order.
FindAllEmptyDescendants(objs, staff, classId) ==
    SelectSeq(staff.children,
              LAMBDA c : objs[c].class = classId /\ objs[c].empty)

\* std::set_difference(first1, last1, first2, last2, inserter) on two lists
\* of Object pointers: the comparison is the one of the addresses, and the
\* loop is the one of the standard library, whatever the order of its input.
RECURSIVE SetDifference(_, _, _)
SetDifference(objs, first1, first2) ==
    IF first1 = <<>> THEN <<>>
    ELSE IF first2 = <<>> THEN first1
    ELSE IF objs[Head(first1)].addr < objs[Head(first2)].addr
    THEN <<Head(first1)>> \o SetDifference(objs, Tail(first1), first2)
    ELSE IF objs[Head(first2)].addr < objs[Head(first1)].addr
    THEN SetDifference(objs, first1, Tail(first2))
    ELSE SetDifference(objs, Tail(first1), Tail(first2))

\* The elements of a list.
Range(list) == {list[i] : i \in 1..Len(list)}

\* layer->SetDrawingStemDir(layer->GetN() % 2 ? up : down) on every layer
\* of the list.
SetStemDirByN(objs, layers) ==
    [c \in DOMAIN objs |->
        IF c \in Range(layers)
        THEN [objs[c] EXCEPT !.m_drawingStemDir =
                 IF objs[c].n % 2 # 0 THEN "STEMDIRECTION_up"
                 ELSE "STEMDIRECTION_down"]
        ELSE objs[c]]

\* CalcStem testing the cross-staff content from above before the one from
\* below.
StaffCalcStemAboveFirst(objs, staff) ==
    LET layers == FindAllDescendantsByType(objs, staff, "LAYER")
    IN  IF layers = <<>> \/ Len(layers) >= 2 THEN objs
        ELSE IF objs[layers[1]].crossStaffFromAbove
        THEN [objs EXCEPT ![layers[1]].m_drawingStemDir = "STEMDIRECTION_down"]
        ELSE IF objs[layers[1]].crossStaffFromBelow
        THEN [objs EXCEPT ![layers[1]].m_drawingStemDir = "STEMDIRECTION_up"]
        ELSE objs

\* Staff::CalcStem: the objects below the staff after the call.
StaffCalcStem(objs, staff) ==
    LET layers == FindAllDescendantsByType(objs, staff, "LAYER")
    IN  IF layers = <<>> THEN objs
        ELSE IF Len(layers) < 2
        THEN IF objs[layers[1]].crossStaffFromBelow
             THEN [objs EXCEPT ![layers[1]].m_drawingStemDir = "STEMDIRECTION_up"]
             ELSE IF objs[layers[1]].crossStaffFromAbove
             THEN [objs EXCEPT ![layers[1]].m_drawingStemDir = "STEMDIRECTION_down"]
             ELSE objs
        ELSE
          LET emptyLayers == FindAllEmptyDescendants(objs, staff, "LAYER")
          IN  IF Len(layers) < 3 /\ Len(emptyLayers) > 0 THEN objs
              ELSE IF emptyLayers # <<>>
              THEN SetStemDirByN(objs, SetDifference(objs, layers, emptyLayers))
              ELSE SetStemDirByN(objs, layers)

\* Staff::CalcStem on the staff.
CalcStem ==
    /\ nodes' = StaffCalcStem(nodes, staves[1])
    /\ call' = [op |-> "CalcStem", this |-> 1]
    /\ UNCHANGED <<m_dashes, staves, castOffVars, alignVars, spanVars, cmmeVars,
                   alignParams>>

\* The orders of k things: which of 1..k each of them is given.
Orderings(k) ==
    {f \in [1..k -> 1..k] : \A i, j \in 1..k : i # j => f[i] # f[j]}

\* A layer with the number n at the address addr, with or without content.
LayerNode(n, addr, empty, fromBelow, fromAbove) ==
    [NewNode("LAYER", addr) EXCEPT
        !.n = n,
        !.empty = empty,
        !.crossStaffFromBelow = fromBelow,
        !.crossStaffFromAbove = fromAbove]

\* A staff with up to MaxLayers layers in document order, numbered in any
\* order, allocated at any addresses, each with or without content, the
\* first with any cross-staff content; an editorial element may follow.
InitCalcStem ==
    /\ m_dashes = <<>>
    /\ call = NoCall
    /\ InitCastOffParams
    /\ InitNoSystem
    /\ InitNoSpan
    /\ InitNoPiece
    /\ alignParams = NoPass
    /\ \E k \in 0..MaxLayers, withApp \in BOOLEAN :
        \E ns \in Orderings(k), addrs \in Orderings(k),
           empties \in [1..k -> BOOLEAN],
           fromBelow \in BOOLEAN, fromAbove \in BOOLEAN :
            /\ nodes =
                 [c \in 1..(k + (IF withApp THEN 1 ELSE 0)) |->
                    IF c <= k
                    THEN LayerNode(ns[c], addrs[c], empties[c],
                                   c = 1 /\ fromBelow, c = 1 /\ fromAbove)
                    ELSE NewNode("APP", k + 1)]
            /\ staves =
                 <<[StaffNew(OriginalID, 1) EXCEPT
                       !.children = [c \in 1..(k + (IF withApp THEN 1 ELSE 0))
                                        |-> c]]>>

NextCalcStem ==
    \/ CalcStem

SpecCalcStem == InitCalcStem /\ [][NextCalcStem]_vars

\* ------------------------------------------------------------------------
\* The children of a staff
\* ------------------------------------------------------------------------

\* The classes Object::IsEditorialElement holds for, and classes of objects
\* that are neither layers nor editorial elements.
EditorialClasses == {"APP", "CHOICE"}

OtherClasses == {"NOTE", "MEASURE"}

\* The N an object is created with: none, or one given by the encoding.
GivenNs == {VRV_UNSET, 1, 2}

\* Object::GetChildCount(classId): the number of children of the class.
GetChildCount(objs, staff, classId) ==
    Len(SelectSeq(staff.children, LAMBDA c : objs[c].class = classId))

\* IsSupportedChild numbering every layer, whether it has an N or not.
StaffIsSupportedChildRenumbers(objs, staff, child) ==
    IF objs[child].class = "LAYER"
    THEN [supported |-> TRUE,
          objs |-> [objs EXCEPT ![child].n =
                       GetChildCount(objs, staff, "LAYER") + 1]]
    ELSE IF objs[child].class \in EditorialClasses
    THEN [supported |-> TRUE, objs |-> objs]
    ELSE [supported |-> FALSE, objs |-> objs]

\* IsSupportedChild holding for every class.
StaffIsSupportedChildOfAnyClass(objs, staff, child) ==
    IF objs[child].class = "LAYER" /\ objs[child].n = VRV_UNSET
    THEN [supported |-> TRUE,
          objs |-> [objs EXCEPT ![child].n =
                       GetChildCount(objs, staff, "LAYER") + 1]]
    ELSE [supported |-> TRUE, objs |-> objs]

\* Staff::IsSupportedChild: what it returns and the objects after the call
\* (a layer without N is given one).
StaffIsSupportedChild(objs, staff, child) ==
    IF objs[child].class = "LAYER"
    THEN [supported |-> TRUE,
          objs |-> IF objs[child].n = VRV_UNSET
                   THEN [objs EXCEPT ![child].n =
                            GetChildCount(objs, staff, "LAYER") + 1]
                   ELSE objs]
    ELSE IF objs[child].class \in EditorialClasses
    THEN [supported |-> TRUE, objs |-> objs]
    ELSE [supported |-> FALSE, objs |-> objs]

\* Object::AddChild on a staff: the child is appended when the staff
\* supports it, and nothing is done otherwise.
ObjectAddChild(objs, staff, child) ==
    LET check == StaffIsSupportedChild(objs, staff, child)
    IN  IF ~check.supported
        THEN [accepted |-> FALSE, objs |-> check.objs, staff |-> staff]
        ELSE [accepted |-> TRUE, objs |-> check.objs,
              staff |-> [staff EXCEPT !.children = Append(@, child)]]

\* An object of some class is created and given to AddChild of the staff.
AddChild ==
    \E class \in {"LAYER"} \cup EditorialClasses \cup OtherClasses,
       n \in GivenNs :
        LET child == Len(nodes) + 1
            given == [NewNode(class, child) EXCEPT !.n = n]
            added == ObjectAddChild(Append(nodes, given), staves[1], child)
        IN  /\ Len(nodes) < MaxChildren
            /\ class # "LAYER" => n = VRV_UNSET
            /\ nodes' = added.objs
            /\ staves' = [staves EXCEPT ![1] = added.staff]
            /\ call' = [op |-> "AddChild", this |-> 1, child |-> child,
                        given |-> given, accepted |-> added.accepted]
            /\ UNCHANGED <<m_dashes, castOffVars, alignVars, spanVars, cmmeVars,
                   alignParams>>

InitAddChild ==
    /\ m_dashes = <<>>
    /\ staves = <<StaffNew(OriginalID, 1)>>
    /\ call = NoCall
    /\ InitCastOffParams
    /\ InitNoSystem
    /\ InitNoTree

NextAddChild ==
    \/ AddChild

SpecAddChild == InitAddChild /\ [][NextAddChild]_vars

\* ------------------------------------------------------------------------
\* The CMME importer: sections and staves
\* ------------------------------------------------------------------------

\* The VoiceNum children of a Voice element of a music section, as the
\* numbers their texts hold: one child in a document that follows the
\* schema, none or two in one that does not.
VoiceNumLists == {<<>>, <<1>>, <<2>>, <<3>>, <<2, 1>>}

\* The sequences of at most n elements of a set.
SeqsUpTo(set, n) == UNION {[1..k -> set] : k \in 0..n}

\* The music sections: the Voice elements of each, in document order.
MusicSections == SeqsUpTo([VoiceNum : VoiceNumLists], MaxVoices)

\* The documents given to the importer: the number of Voice elements of
\* /Piece/VoiceData, and the music sections.
Pieces ==
    [voiceData : 1..MaxVoices,
     musicSections : UNION {[1..k -> MusicSections] : k \in 1..MaxSections}]

\* select_node("./Voice[VoiceNum[text()='num']]"): the place of the first
\* Voice of the section with a VoiceNum child whose text is the number, 0
\* when there is none.
RECURSIVE SelectVoice(_, _, _)
SelectVoice(section, iter, num) ==
    IF iter > Len(section) THEN 0
    ELSE IF \E k \in 1..Len(section[iter].VoiceNum) :
                section[iter].VoiceNum[k] = num
    THEN iter
    ELSE SelectVoice(section, iter + 1, num)

\* CmmeInput::ChildAsInt(voiceNode, "VoiceNum"): the number of the first
\* VoiceNum child.
ChildAsIntVoiceNum(voice) ==
    IF voice.VoiceNum = <<>> THEN VRV_UNSET ELSE voice.VoiceNum[1]

\* CmmeInput::CreateStaff on a Voice of the section: a staff with the number
\* ChildAsInt gives and a layer with the N 1, added to the current measure.
\* m_mensInfos.at(numVoice - 1) throws when the number is not one of the
\* voices.
CmmeCreateStaff(st, voice) ==
    LET numVoice == ChildAsIntVoiceNum(voice)
        layer == [NewNode("LAYER", Len(st.objs) + 1) EXCEPT !.n = 1]
        added == ObjectAddChild(Append(st.objs, layer),
                                StaffNew(GenerateID(st.counter), numVoice),
                                Len(st.objs) + 1)
    IN  IF numVoice - 1 \notin 0..(st.m_numVoices - 1)
        THEN [st EXCEPT !.fault = "std::out_of_range"]
        ELSE [st EXCEPT !.objs = added.objs,
                        !.measure = Append(@, added.staff),
                        !.counter = @ + 1]

\* The loop of CmmeInput::CreateSection over the voices, from i on: the
\* Voice with the number i + 1 is parsed, and a hidden staff is created
\* when the section has none.
RECURSIVE CmmeCreateStaves(_, _, _)
CmmeCreateStaves(st, section, i) ==
    IF i >= st.m_numVoices \/ st.fault # "none" THEN st
    ELSE LET voice == SelectVoice(section, 1, i + 1)
         IN  CmmeCreateStaves(
                 IF voice # 0
                 THEN CmmeCreateStaff(st, section[voice])
                 ELSE [st EXCEPT
                          !.measure = Append(@,
                              [StaffNew(GenerateID(st.counter), i + 1)
                                  EXCEPT !.visible = "BOOLEAN_false"]),
                          !.counter = @ + 1],
                 section, i + 1)

\* CmmeInput::CreateSection: a section with one unmeasured measure, which
\* is given the staves.
CmmeCreateSection(st, section) ==
    LET made == CmmeCreateStaves([st EXCEPT !.measure = <<>>], section, 0)
    IN  [made EXCEPT !.score = Append(@, [measure |-> made.measure])]

\* The loop of CmmeInput::Import over the music sections.
RECURSIVE CmmeCreateSections(_, _, _)
CmmeCreateSections(st, sections, iter) ==
    IF iter > Len(sections) \/ st.fault # "none" THEN st
    ELSE CmmeCreateSections(CmmeCreateSection(st, sections[iter]),
                            sections, iter + 1)

\* CmmeInput::Import on the document: the voices are counted, and the
\* sections created.
Import ==
    LET st == CmmeCreateSections(
                  [objs |-> nodes, measure |-> <<>>, score |-> <<>>,
                   counter |-> s_idCounter, fault |-> "none",
                   m_numVoices |-> piece.voiceData],
                  piece.musicSections, 1)
    IN  /\ call.op = "none"
        /\ nodes' = st.objs
        /\ m_score' = st.score
        /\ s_idCounter' = st.counter
        /\ fault' = st.fault
        /\ call' = [op |-> "Import", m_numVoices |-> st.m_numVoices]
        /\ UNCHANGED <<m_dashes, staves, measures, m_targetMeasure,
                       m_targetStaff, alignVars, spanVars, piece,
                       m_isInSyllable, m_currentLayer, alignParams>>

InitCmme ==
    /\ m_dashes = <<>>
    /\ staves = <<>>
    /\ call = NoCall
    /\ InitCastOffParams
    /\ InitNoSystem
    /\ nodes = <<>>
    /\ InitNoSpan
    /\ piece \in Pieces
    /\ m_score = <<>>
    /\ m_isInSyllable = FALSE
    /\ m_currentLayer = <<>>
    /\ alignParams = NoPass

NextCmme ==
    \/ Import

SpecCmme == InitCmme /\ [][NextCmme]_vars

\* ------------------------------------------------------------------------
\* The CMME importer: the notes of a voice and their syllables
\* ------------------------------------------------------------------------

\* The Note events of an event list: whether the Note has a ModernText
\* child, and whether that child has a WordEnd child.
NoteNodes ==
    {[ModernText |-> FALSE, WordEnd |-> FALSE],
     [ModernText |-> TRUE, WordEnd |-> FALSE],
     [ModernText |-> TRUE, WordEnd |-> TRUE]}

\* The event lists of a Voice.
EventLists == SeqsUpTo(NoteNodes, MaxEvents)

\* The Voice elements CreateStaff is given: one VoiceNum child, which need
\* not be the number of a declared voice, and the event list.
VoiceNodes ==
    [VoiceNum : {<<n>> : n \in 1..(MaxVoices + 1)}, EventList : EventLists]

\* CmmeInput::CreateVerse with the branch of WordEnd leaving m_isInSyllable
\* as it is.
CmmeCreateVerseKeepsInside(isInSyllable, verseNode) ==
    IF verseNode.WordEnd
    THEN [m_isInSyllable |-> isInSyllable,
          verse |-> [n |-> 1, wordpos |-> "t", con |-> "NONE"]]
    ELSE [m_isInSyllable |-> TRUE,
          verse |-> [n |-> 1,
                     wordpos |-> IF isInSyllable THEN "m" ELSE "i",
                     con |-> "d"]]

\* CmmeInput::CreateVerse: the verse with the N 1 and its syllable, and
\* m_isInSyllable after it.  A syllable is constructed without a connector.
CmmeCreateVerse(isInSyllable, verseNode) ==
    IF verseNode.WordEnd
    THEN [m_isInSyllable |-> FALSE,
          verse |-> [n |-> 1, wordpos |-> "t", con |-> "NONE"]]
    ELSE [m_isInSyllable |-> TRUE,
          verse |-> [n |-> 1,
                     wordpos |-> IF isInSyllable THEN "m" ELSE "i",
                     con |-> "d"]]

\* CmmeInput::CreateNote, for the verse of the note: CreateVerse is called
\* when the Note has a ModernText child, and the note is added to the layer.
CmmeCreateNote(st, noteNode) ==
    IF noteNode.ModernText
    THEN LET made == CmmeCreateVerse(st.m_isInSyllable, noteNode)
         IN  [m_isInSyllable |-> made.m_isInSyllable,
              layer |-> Append(st.layer,
                               [class |-> "NOTE", verse |-> <<made.verse>>])]
    ELSE [st EXCEPT !.layer = Append(@, [class |-> "NOTE", verse |-> <<>>])]

\* The loop of CmmeInput::CreateStaff over the events, from iter on.
RECURSIVE CmmeCreateEvents(_, _, _)
CmmeCreateEvents(st, events, iter) ==
    IF iter > Len(events) THEN st
    ELSE CmmeCreateEvents(CmmeCreateNote(st, events[iter]), events, iter + 1)

\* CmmeInput::CreateStaff on a Voice: the new layer is made the current
\* one; m_mensInfos.at throws for a number that is not one of the voices,
\* before m_isInSyllable is reset; otherwise m_isInSyllable is reset, the
\* events are read into the layer, and the staff is added to the measure.
CreateStaff ==
    \E voiceNode \in VoiceNodes :
        LET staff == CmmeCreateStaff(
                         [objs |-> nodes, measure |-> staves,
                          counter |-> s_idCounter, fault |-> "none",
                          m_numVoices |-> piece.voiceData],
                         voiceNode)
            read == CmmeCreateEvents([m_isInSyllable |-> FALSE, layer |-> <<>>],
                                     voiceNode.EventList, 1)
        IN  /\ fault = "none"
            /\ Len(staves) < piece.voiceData
            /\ fault' = staff.fault
            /\ nodes' = staff.objs
            /\ staves' = staff.measure
            /\ s_idCounter' = staff.counter
            /\ IF staff.fault # "none"
               THEN /\ m_currentLayer' = <<>>
                    /\ UNCHANGED m_isInSyllable
               ELSE /\ m_currentLayer' = read.layer
                    /\ m_isInSyllable' = read.m_isInSyllable
            /\ call' = [op |-> "CreateStaff", voiceNode |-> voiceNode,
                        was |-> m_isInSyllable]
            /\ UNCHANGED <<m_dashes, measures, m_targetMeasure, m_targetStaff,
                           alignVars, spanVars, piece, m_score, alignParams>>

\* The importer in a music section whose measure has no staff yet, with
\* the voices of the voice data counted.
InitVerse ==
    /\ m_dashes = <<>>
    /\ staves = <<>>
    /\ call = NoCall
    /\ InitCastOffParams
    /\ InitNoSystem
    /\ nodes = <<>>
    /\ InitNoSpan
    /\ piece = [voiceData |-> MaxVoices, musicSections |-> <<>>]
    /\ m_score = <<>>
    /\ m_isInSyllable = FALSE
    /\ m_currentLayer = <<>>
    /\ alignParams = NoPass

NextVerse ==
    \/ CreateStaff

SpecVerse == InitVerse /\ [][NextVerse]_vars

\* ------------------------------------------------------------------------
\* Properties of LedgerLine
\* ------------------------------------------------------------------------

SortedByLeft(dashes) ==
    \A i \in 1..(Len(dashes) - 1) : dashes[i][1] <= dashes[i + 1][1]

\* No adjacent pair (p, q) has p.right > q.left + 1.5 * extension.
NoMergeablePair(dashes, extension) ==
    \A i \in 1..(Len(dashes) - 1) :
        ~(2 * dashes[i][2] > 2 * dashes[i + 1][1] + 3 * extension)

\* C1: after every AddDash the dash list is sorted by left edge and no
\* adjacent pair (p, q) has p.right > q.left + 1.5 * extension, for the
\* extension of that call (so for the common extension when all calls pass
\* the same one): the single forward sweep reached the merge fixed point,
\* and running the sweep again changes nothing.
C1_SweepReachesFixedPoint ==
    /\ SortedByLeft(m_dashes)
    /\ call.op = "AddDash" =>
          /\ NoMergeablePair(m_dashes, call.extension)
          /\ MergeDashes(m_dashes, 2, call.extension) = m_dashes

\* An AddDash whose dash was absorbed by a merge and left two or more dashes.
C1_Witness ==
    /\ call.op = "AddDash"
    /\ Len(m_dashes) >= 2
    /\ \A i \in 1..Len(m_dashes) : m_dashes[i] # <<call.left, call.right>>
    /\ \E i \in 1..Len(m_dashes) :
          m_dashes[i][1] <= call.left /\ call.right <= m_dashes[i][2]

\* C2: AddDash on a list of one dash merges the two neighbours if and only
\* if the earlier dash's right edge is strictly greater than the later
\* dash's left edge plus 1.5 * extension; the merged dash keeps the earlier
\* left edge and the greater right edge. With extension 2, (0,10) and (8,20)
\* stay two dashes and (0,10) and (5,20) become (0,20).
C2_MergeIffOverlap ==
    [][ (call'.op = "AddDash" /\ Len(m_dashes) = 1) =>
          LET old      == m_dashes[1]
              new      == <<call'.left, call'.right>>
              oldFirst == old[1] <= new[1]
              earlier  == IF oldFirst THEN old ELSE new
              later    == IF oldFirst THEN new ELSE old
              merge    == 2 * earlier[2] > 2 * later[1] + 3 * call'.extension
          IN  /\ merge =>
                    m_dashes' = << <<earlier[1], Max(earlier[2], later[2])>> >>
              /\ ~merge => m_dashes' = <<earlier, later>>
              /\ (old = <<0, 10>> /\ new = <<8, 20>> /\ call'.extension = 2)
                    => m_dashes' = << <<0, 10>>, <<8, 20>> >>
              /\ (old = <<0, 10>> /\ new = <<5, 20>> /\ call'.extension = 2)
                    => m_dashes' = << <<0, 20>> >>
      ]_vars

\* (8,20) added with extension 2 beside (0,10): the two dashes stay apart.
C2_Witness ==
    /\ call = [op |-> "AddDash", left |-> 8, right |-> 20, extension |-> 2]
    /\ m_dashes = << <<0, 10>>, <<8, 20>> >>

\* ------------------------------------------------------------------------
\* Properties of the ledger-line buffers of a staff
\* ------------------------------------------------------------------------

LedgerBuffers ==
    {"m_ledgerLinesAbove", "m_ledgerLinesBelow",
     "m_ledgerLinesAboveCue", "m_ledgerLinesBelowCue"}

\* The buffer a call selects by above/below and cueSize.
SelectedBuffer(c) ==
    IF c.op = "AddLedgerLineAbove"
    THEN (IF c.cueSize THEN "m_ledgerLinesAboveCue" ELSE "m_ledgerLinesAbove")
    ELSE (IF c.cueSize THEN "m_ledgerLinesBelowCue" ELSE "m_ledgerLinesBelow")

Covers(dashes, left, right) ==
    \E i \in 1..Len(dashes) : dashes[i][1] <= left /\ right <= dashes[i][2]

\* C3: AddLedgerLineAbove/AddLedgerLineBelow with count c on a buffer of s
\* slots leaves the buffer with max(s, c) slots, adds the dash to each of the
\* first c slots (new slots starting empty), keeps the slots from c on and
\* leaves the three other buffers as they were; on an empty staff, count 3
\* with span (0,5) gives exactly 3 slots, each holding the dash (0,5).
C3_LedgerLineSlots ==
    [][ call'.op \in {"AddLedgerLineAbove", "AddLedgerLineBelow"} =>
          LET c   == call'
              sel == SelectedBuffer(c)
              old == staves[1][sel]
              new == staves'[1][sel]
          IN  /\ Len(new) = Max(Len(old), c.count)
              /\ \A i \in 1..Len(new) :
                    IF i <= c.count
                    THEN /\ Covers(new[i], c.left, c.right)
                         /\ new[i] = AddDash(IF i <= Len(old) THEN old[i] ELSE <<>>,
                                             c.left, c.right, c.extension)
                    ELSE new[i] = old[i]
              /\ \A b \in LedgerBuffers \ {sel} : staves'[1][b] = staves[1][b]
              /\ ( /\ \A b \in LedgerBuffers : staves[1][b] = <<>>
                   /\ c.count = 3 /\ c.left = 0 /\ c.right = 5 )
                    => new = << << <<0, 5>> >>, << <<0, 5>> >>, << <<0, 5>> >> >>
      ]_vars

\* AddLedgerLineAbove(3, 0, 5, 1, false) has left three slots holding (0,5)
\* above the staff and nothing in the other buffers.
C3_Witness ==
    /\ call = LedgerCall("AddLedgerLineAbove", 3, 0, 5, 1, FALSE)
    /\ staves[1].m_ledgerLinesAbove
         = << << <<0, 5>> >>, << <<0, 5>> >>, << <<0, 5>> >> >>
    /\ \A b \in LedgerBuffers \ {"m_ledgerLinesAbove"} : staves[1][b] = <<>>

\* ------------------------------------------------------------------------
\* Properties of cast-off
\* ------------------------------------------------------------------------

\* The addresses of the staves attached to a target measure.
AttachedStaves ==
    UNION {{measures[k][i] : i \in 1..Len(measures[k])} : k \in 1..Len(measures)}

\* C4: after every ConvertToCastOffMensural on the staff that carried
\* identifier X, exactly one node among the original and its clones carries
\* X, it is the clone of the first segment, and the other nodes carry
\* pairwise distinct generated identifiers.
C4_CastOffIdentity ==
    (fault = "none" /\ Len(staves) >= 2) =>
        /\ staves[2].id = OriginalID
        /\ \E k \in 1..Len(measures) :
              /\ measures[k] # <<>>
              /\ measures[k][1] = 2
              /\ \A j \in 1..(k - 1) : measures[j] = <<>>
        /\ \A i \in 1..Len(staves) : i # 2 =>
              /\ staves[i].id # OriginalID
              /\ \E serial \in 1..(s_idCounter - 1) :
                    staves[i].id = GenerateID(serial)
        /\ \A i, j \in 1..Len(staves) : i # j => staves[i].id # staves[j].id

\* The staff was cast off into two segments, one clone in each.
C4_Witness ==
    /\ fault = "none"
    /\ measures = << <<2>>, <<3>> >>
    /\ Len(staves) = 3

TransientCachesFresh(staff) ==
    /\ staff.m_staffAlignment = NULL
    /\ staff.m_timeSpanningElements = <<>>
    /\ staff.m_drawingStaffDef = NULL
    /\ staff.m_ledgerLinesAbove = <<>>
    /\ staff.m_ledgerLinesBelow = <<>>
    /\ staff.m_ledgerLinesAboveCue = <<>>
    /\ staff.m_ledgerLinesBelowCue = <<>>
    /\ staff.m_cachedDrawingY = VRV_UNSET

C6_ViolationLeavesStaffUntouched ==
    fault = "AssertionFailure" =>
        /\ m_targetMeasure = NULL
        /\ measures = <<>>
        /\ AttachedStaves = {}
        /\ staves[1].id = OriginalID

\* C7: ConvertToCastOffMensural changes nothing of the staff it visits but
\* its identifier: the children, N, visibility, type, absolute Y and the
\* ledger-line buffers are as before.
C7_SourceKeepsAllButID ==
    [][ call'.op = "ConvertToCastOffMensural" =>
          /\ staves'[1] = [staves[1] EXCEPT !.id = staves'[1].id]
          /\ staves'[1].id # staves[1].id
          /\ staves'[1].children = staves[1].children
          /\ staves'[1].n = staves[1].n
          /\ staves'[1].visible = staves[1].visible
          /\ staves'[1].type = staves[1].type
          /\ staves'[1].m_yAbs = staves[1].m_yAbs
          /\ \A b \in LedgerBuffers : staves'[1][b] = staves[1][b]
      ]_vars

\* The visited staff holds children, an absolute Y and ledger lines after
\* the call, under a generated identifier.
C7_Witness ==
    /\ call.op = "ConvertToCastOffMensural"
    /\ fault = "none"
    /\ staves[1].id # OriginalID
    /\ staves[1].children = <<"layer-1", "layer-2">>
    /\ staves[1].m_yAbs = 40
    /\ staves[1].m_ledgerLinesAbove # <<>>

\* ------------------------------------------------------------------------
\* Properties of the vertical alignment and the drawing Y
\* ------------------------------------------------------------------------

\* The staff resolves its drawing Y from its slot: no facsimile in a
\* facsimile document, no absolute Y, a slot assigned.
ResolvesFromSlot(staff) ==
    /\ ~(staff.facs /\ docType = "Facs")
    /\ staff.m_yAbs = VRV_UNSET
    /\ staff.m_staffAlignment # NULL

\* The Y of the owning system plus the relative Y of the slot of the staff.
SlotY(staff) == systemY + m_systemAligner[staff.m_staffAlignment].yRel

C9_AlignmentIdempotent ==
    [][(call'.op = "AlignVertically" /\ layout.phase = "reset" /\ layout.clean)
          => /\ layout'.repeated
             /\ layout'.snapshot = layout.snapshot]_vars

\* A second run over a system whose first staff is hidden: the second staff
\* holds the first slot and draws at the Y of the system both times.
C9_Witness ==
    /\ call.op = "AlignVertically"
    /\ layout.repeated
    /\ layout.snapshot[1].slot = NULL
    /\ layout.snapshot[2].slot = 1
    /\ layout.snapshot[2].y = 10

StaffLayers == FindAllDescendantsByType(nodes, staves[1], "LAYER")

EmptyLayers == {c \in Range(StaffLayers) : nodes[c].empty}

NonEmptyLayers == {c \in Range(StaffLayers) : ~nodes[c].empty}

StemDirUnset(c) == nodes[c].m_drawingStemDir = "STEMDIRECTION_NONE"

\* The stem direction that goes with the number of the layer.
StemDirOfN(c) ==
    IF nodes[c].n % 2 = 1 THEN "STEMDIRECTION_up" ELSE "STEMDIRECTION_down"

\* C11: on a staff with two or more layers of which at least one is empty
\* and fewer than two are not, CalcStem leaves the stem direction of every
\* layer unset.
C11_AmbiguousLeavesUnset ==
    (/\ call.op = "CalcStem"
     /\ Len(StaffLayers) >= 2
     /\ EmptyLayers # {}
     /\ Cardinality(NonEmptyLayers) < 2)
        => \A c \in Range(StaffLayers) : StemDirUnset(c)

\* C12: on a staff with two or more layers of which at least two are not
\* empty, CalcStem sets the stem direction of every non-empty layer from
\* the number of that layer (odd up, even down) and leaves the one of every
\* empty layer unset.
C12_ParityOfNonEmptyLayers ==
    (/\ call.op = "CalcStem"
     /\ Len(StaffLayers) >= 2
     /\ Cardinality(NonEmptyLayers) >= 2)
        => /\ \A c \in NonEmptyLayers :
                nodes[c].m_drawingStemDir = StemDirOfN(c)
           /\ \A c \in EmptyLayers : StemDirUnset(c)

\* C13: with no layer CalcStem changes nothing; with exactly one layer the
\* stem direction is left as it is unless the layer has cross-staff content,
\* and is then up for content from the staff below (also when there is
\* content from above as well) and down for content from the staff above.
C13_AtMostOneLayer ==
    [][(call'.op = "CalcStem" /\ Len(StaffLayers) <= 1) =>
          /\ staves' = staves
          /\ IF StaffLayers = <<>> THEN nodes' = nodes
             ELSE LET layer == StaffLayers[1]
                  IN  nodes' = [nodes EXCEPT ![layer].m_drawingStemDir =
                          IF nodes[layer].crossStaffFromBelow
                          THEN "STEMDIRECTION_up"
                          ELSE IF nodes[layer].crossStaffFromAbove
                          THEN "STEMDIRECTION_down"
                          ELSE @]]_vars

\* One layer with content from below and from above: up.
C13_Witness ==
    /\ call.op = "CalcStem"
    /\ Len(StaffLayers) = 1
    /\ nodes[StaffLayers[1]].crossStaffFromBelow
    /\ nodes[StaffLayers[1]].crossStaffFromAbove
    /\ nodes[StaffLayers[1]].m_drawingStemDir = "STEMDIRECTION_up"

\* C20: on a staff with three or more layers the result of CalcStem does not
\* depend on the addresses of the layers: whatever they are, removing the
\* empty layers from the list of the layers removes exactly the empty ones,
\* no empty layer is given a stem direction and every non-empty layer is.
C20_IndependentOfAddresses ==
    Len(StaffLayers) >= 3 =>
        /\ SetDifference(nodes, StaffLayers,
                         FindAllEmptyDescendants(nodes, staves[1], "LAYER"))
             = SelectSeq(StaffLayers, LAMBDA c : ~nodes[c].empty)
        /\ call.op = "CalcStem" =>
              /\ \A c \in EmptyLayers : StemDirUnset(c)
              /\ \A c \in NonEmptyLayers : ~StemDirUnset(c)

\* ------------------------------------------------------------------------
\* Properties of the children of a staff
\* ------------------------------------------------------------------------

\* C14: a child is accepted by a staff if and only if it is a layer or an
\* editorial element; for any other class the support check reports the
\* rejection, the list of the children of the staff is unchanged, and
\* neither the staff nor the child is modified.
C14_AddChildRejection ==
    [][call'.op = "AddChild" =>
          LET child == call'.child
          IN  /\ call'.accepted <=>
                    call'.given.class \in {"LAYER"} \cup EditorialClasses
              /\ StaffIsSupportedChild(Append(nodes, call'.given), staves[1],
                                       child).supported = call'.accepted
              /\ call'.accepted =>
                    staves'[1] = [staves[1] EXCEPT !.children = Append(@, child)]
              /\ ~call'.accepted =>
                    /\ staves' = staves
                    /\ nodes' = Append(nodes, call'.given)]_vars

\* A note is rejected by a staff that has children.
C14_Witness ==
    /\ call.op = "AddChild"
    /\ ~call.accepted
    /\ call.given.class = "NOTE"
    /\ Len(staves[1].children) = 2
    /\ Len(nodes) = 3

\* C15: a layer added without an N is given 1 + the number of the layers
\* that are children of the staff at that moment, and a layer added with an
\* N keeps it; so when the layers of the staff are numbered 1, 2, ... in
\* order, an added layer without N continues the numbering.
C15_LayerAutoNumbering ==
    [][(call'.op = "AddChild" /\ call'.given.class = "LAYER") =>
          LET child == call'.child
              layers == FindAllDescendantsByType(nodes, staves[1], "LAYER")
          IN  /\ nodes'[child].n =
                    IF call'.given.n = VRV_UNSET THEN 1 + Len(layers)
                    ELSE call'.given.n
              /\ \A c \in 1..Len(nodes) : nodes'[c] = nodes[c]
              /\ (/\ call'.given.n = VRV_UNSET
                  /\ Len(layers) = Len(staves[1].children)
                  /\ \A k \in 1..Len(layers) : nodes[layers[k]].n = k)
                    => \A k \in 1..Len(staves'[1].children) :
                          nodes'[staves'[1].children[k]].n = k]_vars

\* Three layers added without N to a staff without layers: 1, 2, 3.
C15_Witness ==
    /\ call.op = "AddChild"
    /\ call.given.class = "LAYER"
    /\ call.given.n = VRV_UNSET
    /\ Len(staves[1].children) = 3
    /\ \A k \in 1..3 : nodes[staves[1].children[k]].n = k

\* ------------------------------------------------------------------------
\* Properties of the vertical-alignment pass
\* ------------------------------------------------------------------------

\* The staves before the staff that the staffDefs of the system show.
VisibleBefore(this) ==
    {j \in 1..(this - 1) : staffDefs[staves[j].n] # "OPTIMIZATION_HIDDEN"}

\* C16: a staff whose staffDef (looked up by the N of the staff) is hidden
\* returns FUNCTOR_SIBLINGS and changes nothing: no slot is requested or
\* created, the alignment of the staff is untouched, no verse number is
\* registered and m_staffIdx is not advanced. A visible staff takes the
\* slot at m_staffIdx and advances m_staffIdx by one, so the k-th visible
\* staff holds the slot with the index k - 1.
C16_HiddenStaffSkipped ==
    [][call'.op = "StaffAlignVertically" =>
          LET this == call'.this
              idx  == alignParams.m_staffIdx
          IN  IF staffDefs[staves[this].n] = "OPTIMIZATION_HIDDEN"
              THEN /\ call'.code = "FUNCTOR_SIBLINGS"
                   /\ staves' = staves
                   /\ m_systemAligner' = m_systemAligner
                   /\ alignParams'.m_staffIdx = idx
              ELSE /\ call'.code = "FUNCTOR_CONTINUE"
                   /\ idx = Cardinality(VisibleBefore(this))
                   /\ staves'[this].m_staffAlignment = idx + 1
                   /\ Len(m_systemAligner') = Max(Len(m_systemAligner), idx + 1)
                   /\ alignParams'.m_staffIdx = idx + 1
                   /\ \A j \in 1..Len(staves) :
                         j # this => staves'[j] = staves[j]]_vars

\* The first staff, aligned and given lyrics before its staffDef was hidden,
\* is skipped and keeps the slot it had.
C16_Witness ==
    /\ call.op = "StaffAlignVertically"
    /\ call.this = 1
    /\ call.code = "FUNCTOR_SIBLINGS"
    /\ staves[1].m_staffAlignment = 1
    /\ staves[1].m_timeSpanningElements # <<>>
    /\ alignParams.m_staffIdx = 0

\* The verse numbers the time-spanning elements of the staff lead to: the
\* one of the first verse, and the one of the verse of the first syllable.
SpanningVerseNs(staff) ==
    LET elements == staff.m_timeSpanningElements
        versePos == FindClass(elements, 1, "VERSE")
        sylPos   == FindClass(elements, 1, "SYL")
    IN  (IF versePos # 0 THEN {elements[versePos].n} ELSE {})
            \cup (IF sylPos # 0 /\ elements[sylPos].verse # NULL
                  THEN {elements[sylPos].verse} ELSE {})

NoDuplicate(list) ==
    \A i, j \in 1..Len(list) : i # j => list[i] # list[j]

SpanningInto(n) ==
    SelectSeq([e \in 1..Len(spanningElements) |-> e],
              LAMBDA e : /\ spanningElements[e].startMeasure # currentMeasure
                         /\ n \in spanningElements[e].staffNs)

\* C18: PrepareStaffCurrentTimeSpanning appends to the list of the staff
\* exactly the elements of the collection of the pass that do not start in
\* the current measure and are on the staff with the N of the staff, in the
\* order of the collection; an element that starts in the current measure
\* or is not on the staff is not appended, and the collection is unchanged.
C18_TimeSpanPropagation ==
    [][call'.op = "PrepareStaffCurrentTimeSpanning" =>
          LET this == call'.this
          IN  /\ staves' = [staves EXCEPT ![this].m_timeSpanningElements =
                               @ \o SpanningInto(staves[this].n)]
              /\ spanningElements' = spanningElements
              /\ currentMeasure' = currentMeasure]_vars

\* In the second measure, with an element from the first measure on the
\* first staff only and an element that starts in the second measure on both
\* staves: the first staff holds the first element only.
C18_Witness ==
    /\ call.op = "PrepareStaffCurrentTimeSpanning"
    /\ call.this = 1
    /\ currentMeasure = 2
    /\ spanningElements = <<[startMeasure |-> 1, staffNs |-> {1}],
                            [startMeasure |-> 2, staffNs |-> {1, 2}]>>
    /\ staves[1].m_timeSpanningElements = <<1>>

\* ------------------------------------------------------------------------
\* Properties of the CMME importer
\* ------------------------------------------------------------------------

\* C19: for every music section the importer creates one measure with
\* exactly one staff per voice, the numbers 1..m_numVoices each once and in
\* ascending order; a voice the section does not have is a hidden staff
\* without children, so the N of a staff is always assigned and unique in
\* its measure.
C19_OneStaffPerVoice ==
    call.op = "Import" =>
        /\ fault = "none"
        /\ Len(m_score) = Len(piece.musicSections)
        /\ \A k \in 1..Len(m_score) :
              LET measure == m_score[k].measure
              IN  /\ Len(measure) = call.m_numVoices
                  /\ \A i \in 1..Len(measure) :
                        /\ measure[i].n = i
                        /\ SelectVoice(piece.musicSections[k], 1, i) = 0
                              => /\ measure[i].visible = "BOOLEAN_false"
                                 /\ measure[i].children = <<>>

\* The syllables of the current layer, in the order of their notes.
RECURSIVE SylsOf(_, _)
SylsOf(layer, iter) ==
    IF iter > Len(layer) THEN <<>>
    ELSE layer[iter].verse \o SylsOf(layer, iter + 1)

\* The ModernText elements of an event list, in order.
ModernTexts(events) == SelectSeq(events, LAMBDA e : e.ModernText)

\* C21: the word position of the syllables is a two-state machine that
\* starts outside a word at the beginning of every staff.  A syllable with
\* WordEnd is terminal, has no connector and leaves the state outside; one
\* without WordEnd is initial when the state is outside and middle when it
\* is inside, has a dash connector and leaves the state inside.  Hence in
\* one staff an initial syllable is never directly followed by an initial
\* one, and a middle syllable only comes after an initial or a middle one.
C21_SyllableWordPosition ==
    LET syls == SylsOf(m_currentLayer, 1)
    IN  /\ \A k \in 1..Len(syls) :
              /\ (k < Len(syls) /\ syls[k].wordpos = "i")
                    => syls[k + 1].wordpos # "i"
              /\ syls[k].wordpos = "m"
                    => k > 1 /\ syls[k - 1].wordpos \in {"i", "m"}
        /\ (call.op = "CreateStaff" /\ fault = "none") =>
              LET texts == ModernTexts(call.voiceNode.EventList)
                  outside(k) == k = 1 \/ texts[k - 1].WordEnd
              IN  /\ Len(syls) = Len(texts)
                  /\ \A k \in 1..Len(texts) :
                        IF texts[k].WordEnd
                        THEN /\ syls[k].wordpos = "t"
                             /\ syls[k].con = "NONE"
                        ELSE /\ syls[k].wordpos
                                    = IF outside(k) THEN "i" ELSE "m"
                             /\ syls[k].con = "d"
                  /\ m_isInSyllable
                        = (texts # <<>> /\ ~texts[Len(texts)].WordEnd)

\* A staff whose voice is read while the one before it ended inside a word,
\* and whose notes have an initial, a middle and a terminal syllable.
C21_Witness ==
    /\ call.op = "CreateStaff"
    /\ fault = "none"
    /\ call.was = TRUE
    /\ Len(staves) = 2
    /\ LET syls == SylsOf(m_currentLayer, 1)
       IN  /\ Len(syls) = 3
           /\ syls[1].wordpos = "i"
           /\ syls[2].wordpos = "m"
           /\ syls[3].wordpos = "t"

=============================================================================
